---- MODULE Spec2Model ----
(***************************************************************************)
(* A model of py_simple_sharepoint.SharePointClient: the certificate-based *)
(* client assertion (JWT) it builds, its constructor, and its public       *)
(* operations against the Graph drive that holds the document library.     *)
(*                                                                         *)
(* Python str and bytes values whose content matters are sequences of      *)
(* character codes (ASCII), so that encoding and splitting are computed.   *)
(***************************************************************************)
EXTENDS Integers, Sequences, FiniteSets, TLC

VARIABLES
    \* ---- the clock and the random source read by _new_jwt_client_assertion
    clock,          \* int(time.time())
    mono_cur,       \* the clock has not stepped back since the running/last call began
    mono_prev,      \* ... since the call before that one began
    mono_pair,      \* ... from the first to the last clock reading of the two
                    \* calls that made prev_payload and payload
    issued,         \* the UUIDs uuid.uuid4() has handed out
    \* ---- SharePointClient fields
    tenant_id, client_id, key_file, cert_file, key_password,
    private_key, certificate, access_token, headers, site_id, drive_id,
    \* ---- SharePointClient.__init__
    pc,             \* position of the constructor
    raised,         \* the exception that left the constructor or the operation
    token_requests, \* POSTs to the token endpoint
    graph_requests, \* GETs the constructor sent to Graph (site and drives)
    \* ---- _new_jwt_client_assertion
    jpc, nbf, exp, jti, calls, payload, prev_payload, assertion,
    \* ---- public operations
    library,        \* the server's drive: item path -> "file" | "folder"
    op,             \* the running or last operation and its arguments
    opc,            \* "idle" | "running" | "returned" | "raised"
    reqs,           \* the requests the running or last operation has sent
    result,         \* what the last operation returned
    parts, current_path, created_folder,     \* create_folder's locals
    file_size, chunk_size, upload_i, offset  \* upload_file's locals

jwt_vars == <<clock, mono_cur, mono_prev, mono_pair, issued, jpc, nbf, exp, jti, calls,
              payload, prev_payload, assertion>>
field_vars == <<tenant_id, client_id, key_file, cert_file, key_password,
                private_key, certificate, access_token, headers, site_id, drive_id>>
ctor_vars == <<pc, token_requests, graph_requests>>
folder_vars == <<parts, current_path, created_folder>>
upload_vars == <<file_size, chunk_size, upload_i, offset>>
op_vars == <<library, op, opc, reqs, result, folder_vars, upload_vars>>
vars == <<jwt_vars, field_vars, ctor_vars, raised, op_vars>>

None == "None"

(***************************************************************************)
(* Bounds of the model.                                                    *)
(***************************************************************************)
MaxClock == 1          \* the clock takes the values 0..MaxClock
MaxCalls == 2          \* calls of _new_jwt_client_assertion in one behaviour
MaxUuid == 2           \* size of the space uuid4 draws from
MaxKeyBytes == 2       \* RSA modulus sizes 1..MaxKeyBytes bytes

(***************************************************************************)
(* Text helpers: Python's str/bytes operations on code sequences.          *)
(***************************************************************************)
RECURSIVE rstrip(_, _)
rstrip(s, c) ==
    IF Len(s) > 0 /\ s[Len(s)] = c THEN rstrip(SubSeq(s, 1, Len(s) - 1), c) ELSE s

RECURSIVE lstrip(_, _)
lstrip(s, c) ==
    IF Len(s) > 0 /\ s[1] = c THEN lstrip(SubSeq(s, 2, Len(s)), c) ELSE s

strip(s, c) == rstrip(lstrip(s, c), c)

\* s.split(sep): the pieces between the separators, empty pieces kept
RECURSIVE SplitAt(_, _, _)
SplitAt(s, from, seps) ==
    IF seps = {} THEN <<SubSeq(s, from, Len(s))>>
    ELSE LET i == CHOOSE k \in seps : \A j \in seps : k <= j
         IN  <<SubSeq(s, from, i - 1)>> \o SplitAt(s, i + 1, seps \ {i})

split(s, sep) == SplitAt(s, 1, { i \in 1..Len(s) : s[i] = sep })

\* sep.join(pieces)
RECURSIVE join(_, _)
join(pieces, sep) ==
    IF Len(pieces) = 0 THEN <<>>
    ELSE IF Len(pieces) = 1 THEN pieces[1]
    ELSE pieces[1] \o <<sep>> \o join(Tail(pieces), sep)

\* str(n) for an int
RECURSIVE NatStr(_)
NatStr(n) == IF n < 10 THEN <<48 + n>> ELSE NatStr(n \div 10) \o <<48 + (n % 10)>>

IntStr(n) == IF n < 0 THEN <<45>> \o NatStr(0 - n) ELSE NatStr(n)

(***************************************************************************)
(* base64.urlsafe_b64encode and _base64url_encode.                         *)
(***************************************************************************)
\* "A".."Z", "a".."z", "0".."9", "-", "_"
B64Alphabet ==
    [i \in 1..26 |-> 64 + i] \o [i \in 1..26 |-> 96 + i] \o
    [i \in 1..10 |-> 47 + i] \o <<45, 95>>

B64Char(v) == B64Alphabet[v + 1]

RECURSIVE urlsafe_b64encode(_)
urlsafe_b64encode(data) ==
    IF Len(data) = 0 THEN <<>>
    ELSE IF Len(data) = 1 THEN
        <<B64Char(data[1] \div 4), B64Char((data[1] % 4) * 16), 61, 61>>
    ELSE IF Len(data) = 2 THEN
        <<B64Char(data[1] \div 4),
          B64Char((data[1] % 4) * 16 + data[2] \div 16),
          B64Char((data[2] % 16) * 4), 61>>
    ELSE
        <<B64Char(data[1] \div 4),
          B64Char((data[1] % 4) * 16 + data[2] \div 16),
          B64Char((data[2] % 16) * 4 + data[3] \div 64),
          B64Char(data[3] % 64)>>
        \o urlsafe_b64encode(SubSeq(data, 4, Len(data)))

_base64url_encode_padded(data) == urlsafe_b64encode(data)

_base64url_encode(data) == rstrip(urlsafe_b64encode(data), 61)

(***************************************************************************)
(* json.dumps(obj, separators=(",", ":")) for the two objects the          *)
(* assertion serialises.  Strings are quoted with '"' and '\' escaped.     *)
(***************************************************************************)
RECURSIVE JsonEscape(_)
JsonEscape(s) ==
    IF Len(s) = 0 THEN <<>>
    ELSE (IF s[1] \in {34, 92} THEN <<92, s[1]>> ELSE <<s[1]>>) \o JsonEscape(Tail(s))

JsonString(s) == <<34>> \o JsonEscape(s) \o <<34>>

\* {"alg":"RS256","typ":"JWT","x5t":<x5t>}
HeaderJson(header) ==
    <<123, 34, 97, 108, 103, 34, 58>> \o JsonString(header.alg) \o
    <<44, 34, 116, 121, 112, 34, 58>> \o JsonString(header.typ) \o
    <<44, 34, 120, 53, 116, 34, 58>> \o JsonString(header.x5t) \o <<125>>

\* {"iss":..,"sub":..,"aud":..,"nbf":..,"exp":..,"jti":..}
PayloadJson(p) ==
    <<123, 34, 105, 115, 115, 34, 58>> \o JsonString(p.iss) \o
    <<44, 34, 115, 117, 98, 34, 58>> \o JsonString(p.sub) \o
    <<44, 34, 97, 117, 100, 34, 58>> \o JsonString(p.aud) \o
    <<44, 34, 110, 98, 102, 34, 58>> \o IntStr(p.nbf) \o
    <<44, 34, 101, 120, 112, 34, 58>> \o IntStr(p.exp) \o
    <<44, 34, 106, 116, 105, 34, 58>> \o JsonString(p.jti) \o <<125>>

\* "RS256", "JWT"
RS256 == <<82, 83, 50, 53, 54>>
JWT == <<74, 87, 84>>

\* f"https://login.microsoftonline.com/{tenant_id}/oauth2/v2.0/token"
TokenEndpoint(tenant) ==
    <<104, 116, 116, 112, 115, 58, 47, 47, 108, 111, 103, 105, 110, 46, 109, 105,
      99, 114, 111, 115, 111, 102, 116, 111, 110, 108, 105, 110, 101, 46, 99, 111,
      109, 47>> \o tenant \o
    <<47, 111, 97, 117, 116, 104, 50, 47, 118, 50, 46, 48, 47, 116, 111, 107, 101, 110>>

\* str(uuid): 8-4-4-4-12 hexadecimal digits; the model's UUIDs differ in the last digit
UuidStr(u) ==
    [i \in 1..8 |-> 48] \o <<45>> \o [i \in 1..4 |-> 48] \o <<45, 52, 48, 48, 48, 45,
      56, 48, 48, 48, 45>> \o [i \in 1..11 |-> 48] \o
    <<IF u < 10 THEN 48 + u ELSE 87 + u>>

UUIDs == 0..(MaxUuid - 1)

\* uuid.uuid4(): a random value; the library's contract is that it repeats none
uuid4_reusing(given) == UUIDs

uuid4(given) == UUIDs \ given

(***************************************************************************)
(* Key material.  A certificate is known by its SHA-1 fingerprint (20      *)
(* bytes), a private key by the length in bytes of the signatures it makes.*)
(***************************************************************************)
FingerprintLen == 20
Certificates == { [i \in 1..FingerprintLen |-> 255],
                  [i \in 1..FingerprintLen |-> (i * 37) % 256] }
PrivateKeys == 1..MaxKeyBytes
SigBytes == {251, 255}

\* private_key.sign(data, PKCS1v15, SHA256): key-size bytes
Signatures(key) == [1..key -> SigBytes]

\* (tenant_id, client_id): ("1", "2"), ("ab", "2") and ("t.id", 'c"\')
Identities == { <<(<<49>>), (<<50>>)>>, <<(<<97, 98>>), (<<50>>)>>,
                <<(<<116, 46, 105, 100>>), (<<99, 34, 92>>)>> }

(***************************************************************************)
(* The clock.  time.time() is the system's wall clock: it advances while   *)
(* the function runs and may be set back.                                  *)
(***************************************************************************)
Tick ==
    /\ clock < MaxClock
    /\ clock' = clock + 1
    /\ UNCHANGED <<mono_cur, mono_prev, mono_pair, issued, jpc, nbf, exp, jti, calls,
                   payload, prev_payload, assertion>>
    /\ UNCHANGED <<field_vars, ctor_vars, raised, op_vars>>

StepBack ==
    /\ clock > 0
    /\ clock' = clock - 1
    /\ mono_cur' = FALSE
    /\ mono_prev' = FALSE
    /\ UNCHANGED <<mono_pair, issued, jpc, nbf, exp, jti, calls, payload, prev_payload, assertion>>
    /\ UNCHANGED <<field_vars, ctor_vars, raised, op_vars>>

(***************************************************************************)
(* _new_jwt_client_assertion, one action per read of the environment.      *)
(***************************************************************************)
\* lines 56-57: aud (a pure function of tenant_id) and nbf
JwtNbf ==
    /\ jpc = "idle"
    /\ nbf' = clock - 60
    /\ jpc' = "exp"
    /\ mono_prev' = mono_cur
    /\ mono_cur' = TRUE
    /\ UNCHANGED <<clock, mono_pair, issued, exp, jti, calls, payload, prev_payload, assertion>>
    /\ UNCHANGED <<field_vars, ctor_vars, raised, op_vars>>

\* line 58
JwtExp ==
    /\ jpc = "exp"
    /\ exp' = clock + 300
    /\ jpc' = "jti"
    /\ UNCHANGED <<clock, mono_cur, mono_prev, mono_pair, issued, nbf, jti, calls,
                   payload, prev_payload, assertion>>
    /\ UNCHANGED <<field_vars, ctor_vars, raised, op_vars>>

\* line 59
JwtJti ==
    /\ jpc = "jti"
    /\ \E u \in uuid4(issued) :
          /\ jti' = UuidStr(u)
          /\ issued' = issued \cup {u}
    /\ jpc' = "build"
    /\ UNCHANGED <<clock, mono_cur, mono_prev, mono_pair, nbf, exp, calls,
                   payload, prev_payload, assertion>>
    /\ UNCHANGED <<field_vars, ctor_vars, raised, op_vars>>

\* lines 61-65
JwtHeader ==
    [alg |-> RS256, typ |-> JWT, x5t |-> _base64url_encode(certificate)]

\* lines 66-73
JwtPayload ==
    [iss |-> client_id, sub |-> client_id, aud |-> TokenEndpoint(tenant_id),
     nbf |-> nbf, exp |-> exp, jti |-> jti]

\* lines 75-77
Unsigned ==
    _base64url_encode(HeaderJson(JwtHeader)) \o <<46>> \o
    _base64url_encode(PayloadJson(JwtPayload))

\* lines 61-86: serialise, sign and return
JwtBuild ==
    /\ jpc = "build"
    /\ \E signature \in Signatures(private_key) :
          assertion' = Unsigned \o <<46>> \o _base64url_encode(signature)
    /\ payload' = JwtPayload
    /\ prev_payload' = payload
    /\ calls' = calls + 1
    /\ mono_pair' = mono_prev
    /\ jpc' = "idle"
    /\ UNCHANGED <<clock, mono_cur, mono_prev, issued, nbf, exp, jti>>
    /\ UNCHANGED <<field_vars, ctor_vars, raised, op_vars>>

(***************************************************************************)
(* The drive of the document library, as the server holds it: a set of     *)
(* items [path, kind], path the item's path from the drive root ("a/aa")   *)
(* and kind "file" or "folder".  The item's path stands for its id.        *)
(***************************************************************************)
MaxPathLen == 3        \* folder and file paths are strings of at most MaxPathLen characters
MaxItems == 2          \* the drive holds at most MaxItems items (its quota)

RECURSIVE StringsUpTo(_, _)
StringsUpTo(chars, n) ==
    IF n = 0 THEN { <<>> }
    ELSE LET shorter == StringsUpTo(chars, n - 1)
         IN  shorter \cup { Append(t, c) : t \in shorter, c \in chars }

\* "/" and "a"
PathChars == {47, 97}
Paths == StringsUpTo(PathChars, MaxPathLen)

Root == <<>>
RootItem == [path |-> Root, kind |-> "folder"]
NoItem == [path |-> Root, kind |-> "None"]

WellFormed(path) == \A k \in 1..Len(split(path, 47)) : split(path, 47)[k] # <<>>

\* "/".join(path.split("/")[:-1])
ParentPath(path) ==
    LET ps == split(path, 47) IN join(SubSeq(ps, 1, Len(ps) - 1), 47)

BaseName(path) == LET ps == split(path, 47) IN ps[Len(ps)]

Exists(lib, path) == path = Root \/ \E it \in lib : it.path = path
IsFolder(lib, path) == path = Root \/ [path |-> path, kind |-> "folder"] \in lib
\* resp.json() of a lookup: the item, or a body that is none
ItemAt(lib, path) ==
    IF path = Root THEN RootItem
    ELSE IF \E it \in lib : it.path = path THEN CHOOSE it \in lib : it.path = path
    ELSE [path |-> path, kind |-> "None"]
Children(lib, path) ==
    { it \in lib : ParentPath(it.path) = path }
IsPrefix(p, q) == Len(p) <= Len(q) /\ SubSeq(q, 1, Len(p)) = p
\* the item at path and everything below it
Subtree(lib, path) ==
    { it \in lib : it.path = path \/ IsPrefix(path \o <<47>>, it.path) }

EmptyLibrary == {}
InitialLibraries ==
    { EmptyLibrary,
      { [path |-> <<97>>, kind |-> "folder"], [path |-> <<97, 97>>, kind |-> "file"] } }

(***************************************************************************)
(* requests.utils.quote and the server's decoding of a request path.       *)
(***************************************************************************)
\* letters, digits, "_.-~" and "/" are left as they are
QuoteSafe == (65..90) \cup (97..122) \cup (48..57) \cup {95, 46, 45, 126, 47}
HexDigit(v) == IF v < 10 THEN 48 + v ELSE 55 + v
HexValue(c) == IF c <= 57 THEN c - 48 ELSE c - 55

RECURSIVE quote(_)
quote(s) ==
    IF Len(s) = 0 THEN <<>>
    ELSE (IF s[1] \in QuoteSafe THEN <<s[1]>>
          ELSE <<37, HexDigit(s[1] \div 16), HexDigit(s[1] % 16)>>) \o quote(Tail(s))

RECURSIVE unquote(_)
unquote(s) ==
    IF Len(s) = 0 THEN <<>>
    ELSE IF s[1] = 37 /\ Len(s) >= 3
         THEN <<HexValue(s[2]) * 16 + HexValue(s[3])>> \o unquote(SubSeq(s, 4, Len(s)))
         ELSE <<s[1]>> \o unquote(Tail(s))

(***************************************************************************)
(* The server's answers.  Any request may be refused with 401 (the token   *)
(* has expired or lacks the permission).                                    *)
(***************************************************************************)
Request(method, endpoint, path, body, status) ==
    [method |-> method, endpoint |-> endpoint, path |-> path, body |-> body,
     status |-> status]

\* GET /drives/{drive_id}/root:/{encoded}
LookupStatuses(lib, encoded) ==
    IF WellFormed(unquote(encoded)) /\ Exists(lib, unquote(encoded))
    THEN {200, 401}
    ELSE IF unquote(encoded) = Root THEN {200, 400, 401}
    ELSE {404, 401}

\* GET .../children
ListStatuses == {200, 401}

\* response.json() of a children listing
ChildrenJson(lib, path, status) ==
    [kind |-> "json", status |-> status,
     value |-> IF status = 200 THEN Children(lib, path) ELSE {}]

\* resp.raise_for_status() raises for 4xx and 5xx
RaisesForStatus(status) == status >= 400

NoException == [type |-> "None", where |-> "None"]
Exception(type, where) == [type |-> type, where |-> where]
NoOp == [name |-> "None", arg |-> <<>>, arg2 |-> <<>>]
NoResult == [kind |-> "None", status |-> 0, value |-> {}]

\* no operation is running: its locals do not exist
NoLocals ==
    /\ parts = <<>>
    /\ current_path = <<>>
    /\ created_folder = NoItem
    /\ file_size = 0
    /\ chunk_size = 0
    /\ upload_i = 0
    /\ offset = 0

InitOps ==
    /\ op = NoOp
    /\ opc = "idle"
    /\ reqs = <<>>
    /\ result = NoResult
    /\ NoLocals

InitJwtLocals ==
    /\ clock \in 0..MaxClock
    /\ mono_cur = TRUE
    /\ mono_prev = TRUE
    /\ mono_pair = TRUE
    /\ issued = {}
    /\ jpc = "idle"
    /\ nbf = 0
    /\ exp = 0
    /\ jti = None
    /\ calls = 0
    /\ payload = None
    /\ prev_payload = None
    /\ assertion = None

(***************************************************************************)
(* SpecJwt: _new_jwt_client_assertion called, one call after the other, on *)
(* a constructed client, while the clock moves.                            *)
(***************************************************************************)
ReadyClient(ids, certs, keys) ==
    /\ InitJwtLocals
    /\ InitOps
    /\ library = EmptyLibrary
    /\ \E id \in ids : tenant_id = id[1] /\ client_id = id[2]
    /\ key_file = "plain"
    /\ cert_file = "pem"
    /\ key_password = None
    /\ private_key \in keys
    /\ certificate \in certs
    /\ access_token = "token"
    /\ headers = "Bearer token"
    /\ site_id = "site"
    /\ drive_id = "drive"
    /\ pc = "ready"
    /\ raised = NoException
    /\ token_requests = 1
    /\ graph_requests = 2

InitJwt ==
    ReadyClient({ <<(<<49>>), (<<50>>)>> }, { [i \in 1..FingerprintLen |-> 255] }, {1})

NextJwt ==
    \/ Tick
    \/ StepBack
    \/ (calls < MaxCalls /\ JwtNbf)
    \/ JwtExp
    \/ JwtJti
    \/ JwtBuild

SpecJwt == InitJwt /\ [][NextJwt]_vars

(***************************************************************************)
(* SpecAssertion: _new_jwt_client_assertion as a function of the client's  *)
(* identifiers and key material, applied once to each input.               *)
(***************************************************************************)
InitAssertion == ReadyClient(Identities, Certificates, PrivateKeys)

NextAssertion ==
    \/ (calls = 0 /\ JwtNbf)
    \/ JwtExp
    \/ JwtJti
    \/ JwtBuild

SpecAssertion == InitAssertion /\ [][NextAssertion]_vars

(***************************************************************************)
(* SharePointClient.__init__.                                              *)
(***************************************************************************)
KeyFiles == {"plain", "encrypted", "malformed", "missing"}
Passwords == {None, "", "right", "wrong"}
CertFiles == {"pem", "der", "malformed"}

\* line 43: self.key_password.encode() if self.key_password else None
PasswordArg(pw) == IF pw \in {None, ""} THEN None ELSE pw

\* a parser that takes whatever bytes it is given for a key
load_pem_private_key_lenient(file, password) == "key"

\* serialization.load_pem_private_key(f.read(), password=...): "key" or the
\* exception it raises
load_pem_private_key(file, password) ==
    IF file = "malformed" THEN "ValueError"
    ELSE IF file = "plain" THEN (IF password = None THEN "key" ELSE "TypeError")
    ELSE IF password = None THEN "TypeError"
    ELSE IF password = "right" THEN "key"
    ELSE "ValueError"

\* lines 40-44
LoadKey ==
    IF key_file = "missing" THEN "FileNotFoundError"
    ELSE load_pem_private_key(key_file, PasswordArg(key_password))

\* lines 46-51: PEM first, DER when PEM parsing raises ValueError
LoadCert ==
    IF cert_file = "pem" THEN "certificate"
    ELSE IF cert_file = "der" THEN "certificate"
    ELSE "ValueError"

CtorRaise(type, where) ==
    /\ pc' = "failed"
    /\ raised' = Exception(type, where)

\* line 24
_load_key_and_cert ==
    /\ pc = "load_key_and_cert"
    /\ IF LoadKey # "key"
       THEN /\ CtorRaise(LoadKey, "_load_key_and_cert")
            /\ UNCHANGED <<private_key, certificate>>
       ELSE IF LoadCert # "certificate"
       THEN /\ CtorRaise(LoadCert, "_load_key_and_cert")
            /\ UNCHANGED <<private_key, certificate>>
       ELSE /\ private_key' = 1
            /\ certificate' = [i \in 1..FingerprintLen |-> 255]
            /\ pc' = "get_access_token"
            /\ UNCHANGED raised
    /\ UNCHANGED <<tenant_id, client_id, key_file, cert_file, key_password,
                   access_token, headers, site_id, drive_id>>
    /\ UNCHANGED <<jwt_vars, token_requests, graph_requests, op_vars>>

\* lines 25-26 and 89-100, once the assertion of line 89 is built: the POST
\* to the token endpoint.  The assertion and what it was built from are
\* locals and end with the call.
_get_access_token ==
    /\ pc = "get_access_token"
    /\ calls = 1
    /\ jpc = "idle"
    /\ assertion' = None
    /\ payload' = None
    /\ jti' = None
    /\ nbf' = 0
    /\ exp' = 0
    /\ token_requests' = token_requests + 1
    /\ \E status \in {200, 401} :
          IF RaisesForStatus(status)
          THEN /\ CtorRaise("HTTPError", "_get_access_token")
               /\ UNCHANGED <<access_token, headers>>
          ELSE /\ access_token' = "token"
               /\ headers' = "Bearer token"
               /\ pc' = "resolve_site"
               /\ UNCHANGED raised
    /\ UNCHANGED <<tenant_id, client_id, key_file, cert_file, key_password,
                   private_key, certificate, site_id, drive_id>>
    /\ UNCHANGED <<clock, mono_cur, mono_prev, mono_pair, issued, jpc, calls,
                   prev_payload>>
    /\ UNCHANGED <<graph_requests, op_vars>>

\* lines 29 and 102-107
_resolve_site ==
    /\ pc = "resolve_site"
    /\ graph_requests' = graph_requests + 1
    /\ \E has_id \in BOOLEAN :
          IF ~has_id
          THEN /\ CtorRaise("Exception", "_resolve_site")
               /\ UNCHANGED site_id
          ELSE /\ site_id' = "site"
               /\ pc' = "resolve_drive"
               /\ UNCHANGED raised
    /\ UNCHANGED <<tenant_id, client_id, key_file, cert_file, key_password,
                   private_key, certificate, access_token, headers, drive_id>>
    /\ UNCHANGED <<jwt_vars, token_requests, op_vars>>

\* lines 30 and 109-115
_resolve_drive ==
    /\ pc = "resolve_drive"
    /\ graph_requests' = graph_requests + 1
    /\ \E drive_found \in BOOLEAN :
          IF ~drive_found
          THEN /\ CtorRaise("Exception", "_resolve_drive")
               /\ UNCHANGED drive_id
          ELSE /\ drive_id' = "drive"
               /\ pc' = "ready"
               /\ UNCHANGED raised
    /\ UNCHANGED <<tenant_id, client_id, key_file, cert_file, key_password,
                   private_key, certificate, access_token, headers, site_id>>
    /\ UNCHANGED <<jwt_vars, token_requests, op_vars>>

(***************************************************************************)
(* Public operations.  One may be called once the client is constructed    *)
(* and the caller has taken the result or the exception of the one before. *)
(***************************************************************************)
CanCall == pc = "ready" /\ opc = "idle"

\* an operation that fetches a new token and puts it in its headers
OpFrame_refreshing ==
    /\ token_requests' = token_requests + 1
    /\ access_token' = "token2"
    /\ headers' = "Bearer token2"
    /\ UNCHANGED <<tenant_id, client_id, key_file, cert_file, key_password,
                   private_key, certificate, site_id, drive_id>>
    /\ UNCHANGED <<jwt_vars, pc, graph_requests, folder_vars, upload_vars>>

\* lines 120-134, 191-261 and 312-398: these methods assign no field of self,
\* call none of the constructor's helpers and have no locals kept here
OpFrame == UNCHANGED <<jwt_vars, field_vars, ctor_vars, folder_vars, upload_vars>>

\* the caller goes on after an operation has returned or raised; the
\* operation's locals are gone
CallerContinues ==
    /\ opc \in {"returned", "raised"}
    /\ opc' = "idle"
    /\ op' = NoOp
    /\ reqs' = <<>>
    /\ result' = NoResult
    /\ raised' = NoException
    /\ parts' = <<>>
    /\ current_path' = <<>>
    /\ created_folder' = NoItem
    /\ file_size' = 0
    /\ chunk_size' = 0
    /\ upload_i' = 0
    /\ offset' = 0
    /\ UNCHANGED library
    /\ UNCHANGED <<jwt_vars, field_vars, ctor_vars>>

Returned(name, arg, arg2, requests, value) ==
    /\ op' = [name |-> name, arg |-> arg, arg2 |-> arg2]
    /\ opc' = "returned"
    /\ reqs' = requests
    /\ result' = value
    /\ raised' = NoException

Raised(name, arg, arg2, requests, type) ==
    /\ op' = [name |-> name, arg |-> arg, arg2 |-> arg2]
    /\ opc' = "raised"
    /\ reqs' = requests
    /\ result' = NoResult
    /\ raised' = Exception(type, name)

\* the folder names list_folder is called with: the paths and some with blanks
FolderNames == Paths \cup { <<32>>, <<32, 97>>, <<47, 32>> }

\* lines 122-133 asking for the children of the folder that was not found
ListingTarget_strict(folder_name, lookup_status) ==
    IF strip(folder_name, 32) = <<>> THEN Root
    ELSE IF lookup_status # 200 THEN <<63>>
    ELSE unquote(quote(strip(folder_name, 47)))

\* lines 122-133: the folder whose children list_folder asks for
ListingTarget(folder_name, lookup_status) ==
    IF strip(folder_name, 32) = <<>> THEN Root
    ELSE IF lookup_status # 200 THEN Root
    ELSE unquote(quote(strip(folder_name, 47)))

\* lines 122-134: the requests list_folder sends
ListFolderRequests(folder_name, lookup_status, list_status) ==
    (IF strip(folder_name, 32) = <<>> THEN <<>>
     ELSE <<Request("GET", "item", quote(strip(folder_name, 47)), <<>>, lookup_status)>>)
    \o
    <<Request("GET", "children", ListingTarget(folder_name, lookup_status), <<>>,
              list_status)>>

\* line 134: what list_folder returns
ListFolderReturn(lib, folder_name, lookup_status, list_status) ==
    ChildrenJson(lib, ListingTarget(folder_name, lookup_status), list_status)

\* the statuses the server may give list_folder's lookup; 0 when none is sent
ListLookupStatuses(lib, folder_name) ==
    IF strip(folder_name, 32) = <<>> THEN {0}
    ELSE LookupStatuses(lib, quote(strip(folder_name, 47)))

\* lines 120-134
list_folder ==
    /\ CanCall
    /\ \E folder_name \in FolderNames :
       \E s1 \in ListLookupStatuses(library, folder_name), s2 \in ListStatuses :
          Returned("list_folder", folder_name, <<>>,
                   ListFolderRequests(folder_name, s1, s2),
                   ListFolderReturn(library, folder_name, s1, s2))
    /\ UNCHANGED library
    /\ OpFrame

\* the items of a listing that have the key "file" (or "folder")
ItemsOfKind(children, kind) ==
    [kind |-> "list", status |-> children.status,
     value |-> { it \in children.value : it.kind = kind }]

\* lines 191-197
get_files ==
    /\ CanCall
    /\ \E folder_name \in FolderNames :
       \E s1 \in ListLookupStatuses(library, folder_name), s2 \in ListStatuses :
          Returned("get_files", folder_name, <<>>,
                   ListFolderRequests(folder_name, s1, s2),
                   ItemsOfKind(ListFolderReturn(library, folder_name, s1, s2), "file"))
    /\ UNCHANGED library
    /\ OpFrame

\* lines 199-204
get_folders ==
    /\ CanCall
    /\ \E folder_name \in FolderNames :
       \E s1 \in ListLookupStatuses(library, folder_name), s2 \in ListStatuses :
          Returned("get_folders", folder_name, <<>>,
                   ListFolderRequests(folder_name, s1, s2),
                   ItemsOfKind(ListFolderReturn(library, folder_name, s1, s2), "folder"))
    /\ UNCHANGED library
    /\ OpFrame

(***************************************************************************)
(* create_folder, one action per turn of its loop.                         *)
(***************************************************************************)
\* POST .../children with {"name": name, "folder": {}, conflictBehavior: "fail"}
\* under the folder at parent (encoded)
CreateStatuses(lib, parent, name) ==
    IF /\ unquote(parent) # Root
       /\ ~(WellFormed(unquote(parent)) /\ Exists(lib, unquote(parent))) THEN {404}
    ELSE IF ~IsFolder(lib, unquote(parent)) \/ name = <<>> \/ ~WellFormed(name) THEN {400}
    ELSE IF Exists(lib, join(<<unquote(parent), name>> , 47))
            \/ (unquote(parent) = Root /\ Exists(lib, name)) THEN {409}
    ELSE IF Cardinality(lib) >= MaxItems THEN {507}
    ELSE {201, 401}

\* the path of the item a creation request under parent makes
ChildPath(parent, name) ==
    IF parent = Root THEN name ELSE parent \o <<47>> \o name

\* line 166 taking every answer but 404 for "the folder exists"
FolderFound_unless_404(status) == status # 404

\* line 166
FolderFound(status) == status = 200

\* lines 154-157
create_folder ==
    /\ CanCall
    /\ \E folder_path \in Paths :
          /\ op' = [name |-> "create_folder", arg |-> folder_path, arg2 |-> <<>>]
          /\ parts' = split(strip(folder_path, 47), 47)
    /\ current_path' = <<>>
    /\ created_folder' = NoItem
    /\ opc' = "running"
    /\ reqs' = <<>>
    /\ UNCHANGED <<library, result, raised, upload_vars>>
    /\ UNCHANGED <<jwt_vars, field_vars, ctor_vars>>

\* lines 158-187: one turn of the loop
create_folder_step ==
    /\ opc = "running"
    /\ op.name = "create_folder"
    /\ parts # <<>>
    /\ LET part == Head(parts)
           path == IF current_path # <<>> THEN current_path \o <<47>> \o part ELSE part
           encoded_path == quote(path)
           parent_path == ParentPath(path)
           lookup(s) == Request("GET", "item", encoded_path, <<>>, s)
           create(s) == Request("POST", "children", quote(parent_path), part, s)
       IN  \E s1 \in LookupStatuses(library, encoded_path) :
              IF FolderFound(s1)
              THEN /\ created_folder' = ItemAt(library, unquote(encoded_path))
                   /\ current_path' = path
                   /\ parts' = Tail(parts)
                   /\ reqs' = Append(reqs, lookup(s1))
                   /\ UNCHANGED <<library, op, opc, result, raised>>
              ELSE \E s2 \in CreateStatuses(library, quote(parent_path), part) :
                      IF RaisesForStatus(s2)
                      THEN /\ Raised("create_folder", op.arg, <<>>,
                                     reqs \o <<lookup(s1), create(s2)>>, "HTTPError")
                           /\ current_path' = path
                           /\ UNCHANGED <<library, parts, created_folder>>
                      ELSE /\ library' = library \cup
                                  { [path |-> ChildPath(unquote(quote(parent_path)), part),
                                     kind |-> "folder"] }
                           /\ created_folder' =
                                  [path |-> ChildPath(unquote(quote(parent_path)), part),
                                   kind |-> "folder"]
                           /\ current_path' = path
                           /\ parts' = Tail(parts)
                           /\ reqs' = reqs \o <<lookup(s1), create(s2)>>
                           /\ UNCHANGED <<op, opc, result, raised>>
    /\ UNCHANGED upload_vars
    /\ UNCHANGED <<jwt_vars, field_vars, ctor_vars>>

\* line 189
create_folder_return ==
    /\ opc = "running"
    /\ op.name = "create_folder"
    /\ parts = <<>>
    /\ Returned("create_folder", op.arg, <<>>, reqs,
                [kind |-> "item", status |-> 0, value |-> {created_folder}])
    /\ UNCHANGED <<library, folder_vars, upload_vars>>
    /\ UNCHANGED <<jwt_vars, field_vars, ctor_vars>>

(***************************************************************************)
(* download_files, download_file, move_file, rename_file, delete_file.     *)
(***************************************************************************)
\* GET of a download URL
DownloadStatuses == {200, 503}
TargetFolders == { <<>>, <<97>> }
NewNames == { <<97>>, <<97, 97>> }

PathBefore(p, q) ==
    \/ Len(p) < Len(q)
    \/ /\ Len(p) = Len(q)
       /\ \E i \in 1..Len(p) : p[i] < q[i] /\ \A j \in 1..(i - 1) : p[j] = q[j]

\* the items of a set (of different paths) in the order the server lists them
RECURSIVE Listed(_)
Listed(items) ==
    IF items = {} THEN <<>>
    ELSE LET first == CHOOSE it \in items :
                         \A other \in items : it = other \/ PathBefore(it.path, other.path)
         IN  <<first>> \o Listed(items \ {first})

DownloadRequest(item, status) == Request("GET", "download", item.path, <<>>, status)

\* lines 207-220
download_files ==
    /\ CanCall
    /\ \E folder_name \in FolderNames :
       \E s1 \in ListLookupStatuses(library, folder_name), s2 \in ListStatuses :
          LET children == ListFolderReturn(library, folder_name, s1, s2)
              files == Listed({ it \in children.value : it.kind = "file" })
              listing == ListFolderRequests(folder_name, s1, s2)
          IN  \/ Returned("download_files", folder_name, <<>>,
                          listing \o [k \in 1..Len(files) |-> DownloadRequest(files[k], 200)],
                          NoResult)
              \/ \E n \in 1..Len(files) :
                    Raised("download_files", folder_name, <<>>,
                           listing \o
                           [k \in 1..n |-> DownloadRequest(files[k],
                                                           IF k < n THEN 200 ELSE 503)],
                           "HTTPError")
    /\ UNCHANGED library
    /\ OpFrame

\* lines 222-261, for a file_path given as a str
download_file ==
    /\ CanCall
    /\ \E file_path \in Paths :
          LET encoded_path == quote(strip(file_path, 47))
              lookup(s) == Request("GET", "item", encoded_path, <<>>, s)
          IN  \E s1 \in LookupStatuses(library, encoded_path) :
                 IF RaisesForStatus(s1)
                 THEN Raised("download_file", file_path, <<>>, <<lookup(s1)>>, "HTTPError")
                 ELSE LET file_item == ItemAt(library, unquote(encoded_path))
                      IN  IF file_item.kind # "file"
                          THEN Raised("download_file", file_path, <<>>, <<lookup(s1)>>,
                                      "Exception")
                          ELSE \E s2 \in DownloadStatuses :
                                  IF RaisesForStatus(s2)
                                  THEN Raised("download_file", file_path, <<>>,
                                              <<lookup(s1), DownloadRequest(file_item, s2)>>,
                                              "HTTPError")
                                  ELSE Returned("download_file", file_path, <<>>,
                                                <<lookup(s1), DownloadRequest(file_item, s2)>>,
                                                [kind |-> "local_path", status |-> 0,
                                                 value |-> {file_item}])
    /\ UNCHANGED library
    /\ OpFrame

\* the drive with the item at from, and all below it, put at to
Moved(lib, from, to) ==
    (lib \ Subtree(lib, from)) \cup
    { [path |-> to \o SubSeq(it.path, Len(from) + 1, Len(it.path)), kind |-> it.kind] :
         it \in Subtree(lib, from) }

\* PATCH /drives/{drive_id}/items/{id} that puts the item at from at to
PatchStatuses(lib, from, to) ==
    IF from = Root \/ IsPrefix(from \o <<47>>, to) THEN {400}
    ELSE IF Exists(lib, to) THEN {409}
    ELSE {200, 401}

\* lines 312-346
move_file ==
    /\ CanCall
    /\ \E file_path \in Paths, target_folder \in TargetFolders :
          LET encoded_path == quote(strip(file_path, 47))
              encoded_target == quote(strip(target_folder, 47))
              file_id == unquote(encoded_path)
              folder_id == unquote(encoded_target)
              to == ChildPath(folder_id, BaseName(file_id))
              get1(s) == Request("GET", "item", encoded_path, <<>>, s)
              get2(s) == Request("GET", "item", encoded_target, <<>>, s)
              patch(s) == Request("PATCH", "items", file_id, folder_id, s)
          IN  \E s1 \in LookupStatuses(library, encoded_path) :
                 IF RaisesForStatus(s1)
                 THEN /\ Raised("move_file", file_path, target_folder, <<get1(s1)>>,
                                "HTTPError")
                      /\ UNCHANGED library
                 ELSE \E s2 \in LookupStatuses(library, encoded_target) :
                         IF RaisesForStatus(s2)
                         THEN /\ Raised("move_file", file_path, target_folder,
                                        <<get1(s1), get2(s2)>>, "HTTPError")
                              /\ UNCHANGED library
                         ELSE \E s3 \in PatchStatuses(library, file_id, to) :
                                 IF RaisesForStatus(s3)
                                 THEN /\ Raised("move_file", file_path, target_folder,
                                                <<get1(s1), get2(s2), patch(s3)>>,
                                                "HTTPError")
                                      /\ UNCHANGED library
                                 ELSE /\ Returned("move_file", file_path, target_folder,
                                                  <<get1(s1), get2(s2), patch(s3)>>,
                                                  [kind |-> "item", status |-> s3,
                                                   value |-> {[path |-> to,
                                                     kind |-> ItemAt(library, file_id).kind]}])
                                      /\ library' = Moved(library, file_id, to)
    /\ OpFrame

\* lines 348-371
rename_file ==
    /\ CanCall
    /\ \E file_path \in Paths, new_name \in NewNames :
          LET encoded_path == quote(strip(file_path, 47))
              file_id == unquote(encoded_path)
              to == ChildPath(ParentPath(file_id), new_name)
              get1(s) == Request("GET", "item", encoded_path, <<>>, s)
              patch(s) == Request("PATCH", "items", file_id, new_name, s)
          IN  \E s1 \in LookupStatuses(library, encoded_path) :
                 IF RaisesForStatus(s1)
                 THEN /\ Raised("rename_file", file_path, new_name, <<get1(s1)>>,
                                "HTTPError")
                      /\ UNCHANGED library
                 ELSE \E s2 \in PatchStatuses(library, file_id, to) :
                         IF RaisesForStatus(s2)
                         THEN /\ Raised("rename_file", file_path, new_name,
                                        <<get1(s1), patch(s2)>>, "HTTPError")
                              /\ UNCHANGED library
                         ELSE /\ Returned("rename_file", file_path, new_name,
                                          <<get1(s1), patch(s2)>>,
                                          [kind |-> "item", status |-> s2,
                                           value |-> {[path |-> to,
                                             kind |-> ItemAt(library, file_id).kind]}])
                              /\ library' = Moved(library, file_id, to)
    /\ OpFrame

\* DELETE /drives/{drive_id}/items/{id}
DeleteStatuses(path) == IF path = Root THEN {400} ELSE {204, 401}

\* lines 373-398
delete_file ==
    /\ CanCall
    /\ \E file_path \in Paths :
          LET encoded_path == quote(strip(file_path, 47))
              file_id == unquote(encoded_path)
              get1(s) == Request("GET", "item", encoded_path, <<>>, s)
              delete(s) == Request("DELETE", "items", file_id, <<>>, s)
          IN  \E s1 \in LookupStatuses(library, encoded_path) :
                 IF s1 = 404
                 THEN /\ Raised("delete_file", file_path, <<>>, <<get1(s1)>>,
                                "FileNotFoundError")
                      /\ UNCHANGED library
                 ELSE IF RaisesForStatus(s1)
                 THEN /\ Raised("delete_file", file_path, <<>>, <<get1(s1)>>, "HTTPError")
                      /\ UNCHANGED library
                 ELSE \E s2 \in DeleteStatuses(file_id) :
                         IF s2 \in {204, 200}
                         THEN /\ Returned("delete_file", file_path, <<>>,
                                          <<get1(s1), delete(s2)>>,
                                          [kind |-> "bool", status |-> s2, value |-> {}])
                              /\ library' = library \ Subtree(library, file_id)
                         ELSE /\ Raised("delete_file", file_path, <<>>,
                                        <<get1(s1), delete(s2)>>, "Exception")
                              /\ UNCHANGED library
    /\ OpFrame

(***************************************************************************)
(* upload_file, one action per chunk sent.                                 *)
(***************************************************************************)
MaxSizeFactor == 2     \* files are up to about MaxSizeFactor times the small-file limit

\* line 279
SmallFileLimit == 4 * 1024 * 1024
\* line 264
DefaultChunkSize == 5 * 1024 * 1024

FileSizes ==
    {0, 1} \cup { k * SmallFileLimit + d : k \in 1..MaxSizeFactor, d \in {-1, 0, 1} }
ChunkSizes == {-1, 0, 2 * 1024 * 1024 + 1, SmallFileLimit, DefaultChunkSize}
\* "a" and "a/aa"
LocalPaths == { <<97>>, <<97, 47, 97, 97>> }
\* "" and "/a/"
UploadFolders == { <<>>, <<47, 97, 47>> }

\* a file of exactly the limit taken for a large one
IsSmallFile_exclusive(size) == size < SmallFileLimit

\* line 279
IsSmallFile(size) == size <= SmallFileLimit

\* lines 270-275
ItemPath(local_path, target_folder) ==
    IF strip(target_folder, 47) # <<>>
    THEN strip(target_folder, 47) \o <<47>> \o BaseName(local_path)
    ELSE BaseName(local_path)

\* whether the drive takes a file at path
TakesFile(lib, path) ==
    /\ WellFormed(path)
    /\ IsFolder(lib, ParentPath(path))
    /\ ~IsFolder(lib, path)

\* PUT .../root:/{item_path}:/content, and the PUT of a session's last bytes
PutStatuses(lib, path) ==
    IF ~TakesFile(lib, path) THEN {409}
    ELSE IF ~Exists(lib, path) /\ Cardinality(lib) >= MaxItems THEN {507}
    ELSE {201, 401}

\* POST .../root:/{item_path}:/createUploadSession
SessionStatuses(lib, path) == IF TakesFile(lib, path) THEN {200, 401} ELSE {409}

\* PUT of bytes that are not the file's last
ChunkStatuses == {202, 503}

WithFile(lib, path) ==
    { it \in lib : it.path # path } \cup { [path |-> path, kind |-> "file"] }

\* f.read(n) with remaining bytes left in the file: the number of bytes read
ReadLen(n, remaining) ==
    IF n < 0 THEN remaining ELSE IF n < remaining THEN n ELSE remaining

\* a last chunk declared as long as the others
ChunkEnd_full(start, len) == start + chunk_size - 1

\* line 300
ChunkEnd(start, len) == start + len - 1

\* lines 270-291
upload_file ==
    /\ CanCall
    /\ \E local_path \in LocalPaths, target_folder \in UploadFolders,
          size \in FileSizes, chunk \in ChunkSizes :
          LET item_path == ItemPath(local_path, target_folder)
              put(s) == Request("PUT", "content", item_path, <<>>, s)
              post(s) == Request("POST", "createUploadSession", item_path, <<>>, s)
          IN  /\ file_size' = size
              /\ chunk_size' = chunk
              /\ upload_i' = 0
              /\ offset' = 0
              /\ IF IsSmallFile(size)
                 THEN \E s \in PutStatuses(library, unquote(item_path)) :
                         IF RaisesForStatus(s)
                         THEN /\ Raised("upload_file", local_path, target_folder,
                                        <<put(s)>>, "HTTPError")
                              /\ UNCHANGED library
                         ELSE /\ Returned("upload_file", local_path, target_folder,
                                          <<put(s)>>,
                                          [kind |-> "item", status |-> s,
                                           value |-> {[path |-> unquote(item_path),
                                                       kind |-> "file"]}])
                              /\ library' = WithFile(library, unquote(item_path))
                 ELSE \E s \in SessionStatuses(library, unquote(item_path)) :
                         IF RaisesForStatus(s)
                         THEN /\ Raised("upload_file", local_path, target_folder,
                                        <<post(s)>>, "HTTPError")
                              /\ UNCHANGED library
                         ELSE /\ op' = [name |-> "upload_file", arg |-> local_path,
                                        arg2 |-> target_folder]
                              /\ opc' = "running"
                              /\ reqs' = <<post(s)>>
                              /\ UNCHANGED <<library, result, raised>>
    /\ UNCHANGED folder_vars
    /\ UNCHANGED <<jwt_vars, field_vars, ctor_vars>>

\* lines 295-307: one turn of the loop that reads a chunk
upload_file_chunk ==
    /\ opc = "running"
    /\ op.name = "upload_file"
    /\ ReadLen(chunk_size, file_size - offset) > 0
    /\ LET len == ReadLen(chunk_size, file_size - offset)
           start == upload_i * chunk_size
           end == ChunkEnd(start, len)
           item_path == unquote(ItemPath(op.arg, op.arg2))
           put(s) == Request("PUT", "upload_url", item_path, <<start, end, file_size>>, s)
       IN  \E s \in (IF offset + len = file_size
                     THEN PutStatuses(library, item_path) ELSE ChunkStatuses) :
              IF RaisesForStatus(s)
              THEN /\ Raised("upload_file", op.arg, op.arg2, Append(reqs, put(s)),
                             "HTTPError")
                   /\ UNCHANGED <<library, upload_i, offset>>
              ELSE /\ reqs' = Append(reqs, put(s))
                   /\ upload_i' = upload_i + 1
                   /\ offset' = offset + len
                   /\ library' = IF offset + len = file_size
                                 THEN WithFile(library, item_path) ELSE library
                   /\ UNCHANGED <<op, opc, result, raised>>
    /\ UNCHANGED <<file_size, chunk_size, folder_vars>>
    /\ UNCHANGED <<jwt_vars, field_vars, ctor_vars>>

\* lines 296-298 and 309-310: the read that finds nothing left; resp is
\* bound only once a chunk has been sent
upload_file_return ==
    /\ opc = "running"
    /\ op.name = "upload_file"
    /\ ReadLen(chunk_size, file_size - offset) = 0
    /\ IF upload_i = 0
       THEN Raised("upload_file", op.arg, op.arg2, reqs, "UnboundLocalError")
       ELSE Returned("upload_file", op.arg, op.arg2, reqs,
                     [kind |-> "item", status |-> reqs[Len(reqs)].status,
                      value |-> {[path |-> unquote(ItemPath(op.arg, op.arg2)),
                                  kind |-> "file"]}])
    /\ UNCHANGED <<library, folder_vars, upload_vars>>
    /\ UNCHANGED <<jwt_vars, field_vars, ctor_vars>>

(***************************************************************************)
(* Spec: a client is constructed and its public operations are called, one *)
(* after the other, in any order.                                          *)
(***************************************************************************)
NewClient(key_files, cert_files, passwords) ==
    /\ InitJwtLocals
    /\ clock = 0
    /\ InitOps
    /\ library \in InitialLibraries
    /\ tenant_id = <<49>>
    /\ client_id = <<50>>
    /\ key_file \in key_files
    /\ cert_file \in cert_files
    /\ key_password \in passwords
    /\ private_key = None
    /\ certificate = None
    /\ access_token = None
    /\ headers = None
    /\ site_id = None
    /\ drive_id = None
    /\ pc = "load_key_and_cert"
    /\ raised = NoException
    /\ token_requests = 0
    /\ graph_requests = 0

Init == NewClient({"plain"}, {"pem"}, {None})

Next ==
    \/ _load_key_and_cert
    \/ (pc = "get_access_token" /\ calls = 0 /\ JwtNbf)
    \/ (pc = "get_access_token" /\ JwtExp)
    \/ (pc = "get_access_token" /\ JwtJti)
    \/ (pc = "get_access_token" /\ JwtBuild)
    \/ _get_access_token
    \/ _resolve_site
    \/ _resolve_drive
    \/ list_folder
    \/ get_files
    \/ get_folders
    \/ create_folder
    \/ create_folder_step
    \/ create_folder_return
    \/ download_files
    \/ download_file
    \/ move_file
    \/ rename_file
    \/ delete_file
    \/ upload_file
    \/ upload_file_chunk
    \/ upload_file_return
    \/ CallerContinues

Spec == Init /\ [][Next]_vars

(***************************************************************************)
(* SpecCtor: the constructor alone, on every kind of key file, certificate *)
(* file and password.                                                      *)
(***************************************************************************)
InitCtor == NewClient(KeyFiles, CertFiles, Passwords)

NextCtor ==
    \/ _load_key_and_cert
    \/ (pc = "get_access_token" /\ calls = 0 /\ JwtNbf)
    \/ (pc = "get_access_token" /\ JwtExp)
    \/ (pc = "get_access_token" /\ JwtJti)
    \/ (pc = "get_access_token" /\ JwtBuild)
    \/ _get_access_token
    \/ _resolve_site
    \/ _resolve_drive

SpecCtor == InitCtor /\ [][NextCtor]_vars

(***************************************************************************)
(* Claims about the assertion.                                             *)
(***************************************************************************)
B64UrlChars == { B64Alphabet[i] : i \in 1..64 }

\* C1 (as stated): every assertion produced has nbf = exp - 360, whatever
\* the clock does between the steps of the function.
C1_NbfIsExpMinus360 ==
    calls >= 1 => payload.nbf = payload.exp - 360

\* an assertion built from two readings of a clock that moved in between
C1_Witness ==
    calls >= 1 /\ payload.exp - payload.nbf # 360

\* C3: two calls made one after the other under a non-decreasing clock carry
\* different jti values, and the second call's nbf and exp are each >= the
\* first call's.
C3_SuccessiveAssertions ==
    (calls >= 2 /\ mono_pair) =>
        /\ payload.jti # prev_payload.jti
        /\ payload.nbf >= prev_payload.nbf
        /\ payload.exp >= prev_payload.exp

\* two calls completed while the clock advanced but never stepped back
C3_Witness ==
    /\ calls >= 2 /\ mono_pair
    /\ payload.nbf > prev_payload.nbf
    /\ payload.exp = prev_payload.exp

\* C4: the returned string splits on "." into exactly three segments, each
\* non-empty and made only of base64url characters (so without "=").
C4_ThreeBase64UrlSegments ==
    calls >= 1 =>
        LET segs == split(assertion, 46)
        IN  /\ Len(segs) = 3
            /\ \A k \in 1..3 :
                  /\ Len(segs[k]) > 0
                  /\ \A i \in 1..Len(segs[k]) : segs[k][i] \in B64UrlChars

\* an assertion whose signature and payload needed "=" padding before it was
\* stripped, and which uses "-" and "_"
C4_Witness ==
    /\ calls >= 1
    /\ Len(PayloadJson(payload)) % 3 # 0
    /\ private_key % 3 # 0
    /\ \E i \in 1..Len(assertion) : assertion[i] = 95
    /\ \E i \in 1..Len(assertion) : assertion[i] = 45

(***************************************************************************)
(* Claims about the constructor.                                           *)
(***************************************************************************)
\* C2: with a malformed private key file the constructor raises out of
\* _load_key_and_cert (the key-load error) and has sent no token request and
\* no site or drive lookup.
C2_KeyLoadErrorBeforeNetwork ==
    (key_file = "malformed" /\ pc # "load_key_and_cert") =>
        /\ pc = "failed"
        /\ raised = Exception("ValueError", "_load_key_and_cert")
        /\ token_requests = 0
        /\ graph_requests = 0

\* the constructor has run on a malformed key file
C2_Witness ==
    key_file = "malformed" /\ pc = "failed" /\ token_requests = 0

(***************************************************************************)
(* Claims about the public operations.                                     *)
(***************************************************************************)
IsChunkPut(r) == r.endpoint = "upload_url"
Smaller(a, b) == IF a < b THEN a ELSE b

\* C5: upload_file picks its transfer mode by the file size alone: up to
\* 4*1024*1024 bytes it sends exactly one simple PUT and creates no upload
\* session; above, it first creates an upload session, sends bytes only once
\* the session was created, and never sends the simple PUT.
C5_UploadModeBySize ==
    op.name = "upload_file" =>
        IF file_size <= 4 * 1024 * 1024
        THEN /\ Len(reqs) = 1
             /\ reqs[1].method = "PUT"
             /\ reqs[1].endpoint = "content"
        ELSE /\ Len(reqs) >= 1
             /\ reqs[1].method = "POST"
             /\ reqs[1].endpoint = "createUploadSession"
             /\ Len(reqs) > 1 => reqs[1].status < 400
             /\ \A i \in 2..Len(reqs) : reqs[i].endpoint = "upload_url"

\* a file of exactly 4 MB has gone up with the simple PUT
C5_Witness ==
    /\ op.name = "upload_file"
    /\ opc = "returned"
    /\ file_size = 4 * 1024 * 1024
    /\ reqs[1].endpoint = "content"

\* the paths p1, p1/p2, ..., p1/.../pn of a folder path
Prefixes(folder_path) ==
    LET ps == split(strip(folder_path, 47), 47)
    IN  { join(SubSeq(ps, 1, k), 47) : k \in 1..Len(ps) }

\* C6: when create_folder returns, every prefix of the path exists in the
\* library; a creation request for a prefix is sent only after its parent
\* prefix was found (lookup 200) or created; and none is sent for a prefix
\* whose lookup returned 200.
C6_CreateFolderChain ==
    op.name = "create_folder" =>
        /\ opc = "returned" => \A p \in Prefixes(op.arg) : Exists(library, p)
        /\ \A j \in 1..Len(reqs) :
              reqs[j].method = "POST" =>
                 LET parent == unquote(reqs[j].path)
                     made == ChildPath(parent, reqs[j].body)
                 IN  /\ \/ parent = Root
                        \/ \E i \in 1..(j - 1) :
                              \/ /\ reqs[i].method = "GET"
                                 /\ unquote(reqs[i].path) = parent
                                 /\ reqs[i].status = 200
                              \/ /\ reqs[i].method = "POST"
                                 /\ reqs[i].status < 400
                                 /\ ChildPath(unquote(reqs[i].path), reqs[i].body) = parent
                     /\ ~\E i \in 1..(j - 1) :
                              /\ reqs[i].method = "GET"
                              /\ unquote(reqs[i].path) = made
                              /\ reqs[i].status = 200

\* create_folder("a/a") has returned after creating "a" and then "a/a"
C6_Witness ==
    /\ op.name = "create_folder"
    /\ opc = "returned"
    /\ op.arg = <<97, 47, 97>>
    /\ Len(reqs) = 4
    /\ reqs[2].method = "POST"
    /\ reqs[4].method = "POST"

\* C7: list_folder with a non-blank folder name whose lookup is not answered
\* 200 raises nothing and returns the listing of the root's children, the
\* result list_folder("") gives.
C7_ListFolderFallsBackToRoot ==
    (op.name = "list_folder" /\ strip(op.arg, 32) # <<>> /\ reqs[1].status # 200) =>
        /\ opc = "returned"
        /\ Len(reqs) = 2
        /\ reqs[2] = Request("GET", "children", Root, <<>>, reqs[2].status)
        /\ result = ListFolderReturn(library, <<>>, 0, reqs[2].status)

\* a missing folder was asked for and the root's items came back
C7_Witness ==
    /\ op.name = "list_folder"
    /\ strip(op.arg, 47) # <<>>
    /\ reqs[1].status = 404
    /\ opc = "returned"
    /\ result.value = Children(library, Root)
    /\ result.value # {}

\* C8: the token is fetched exactly once, in the constructor; once the
\* client is constructed no step of any public operation sends a token
\* request or changes access_token, headers, site_id or drive_id.
C8_TokenFetchedOnceNeverRefreshed ==
    /\ [](pc = "ready" => token_requests = 1)
    /\ [][pc = "ready" =>
            /\ token_requests' = token_requests
            /\ access_token' = access_token
            /\ headers' = headers
            /\ site_id' = site_id
            /\ drive_id' = drive_id]_vars

\* an operation was refused with 401 and raised; still one token request
C8_Witness ==
    /\ pc = "ready"
    /\ opc = "raised"
    /\ \E i \in 1..Len(reqs) : reqs[i].status = 401
    /\ token_requests = 1
    /\ access_token = "token"

\* C9: in a chunked upload of S > 4 MB bytes with chunk_size c > 0 the k-th
\* chunk PUT (k from 0) declares bytes k*c .. min((k+1)*c, S)-1 of S; no
\* chunk follows a chunk PUT that failed, which makes the upload raise; and
\* an upload that returns has sent the bytes up to S-1.
C9_ChunkRanges ==
    (op.name = "upload_file" /\ file_size > 4 * 1024 * 1024 /\ chunk_size > 0) =>
        LET chunks == SelectSeq(reqs, IsChunkPut)
            n == Len(chunks)
        IN  /\ \A k \in 1..n :
                  chunks[k].body = <<(k - 1) * chunk_size,
                                     Smaller(k * chunk_size, file_size) - 1,
                                     file_size>>
            /\ \A k \in 1..(n - 1) : chunks[k].status < 400
            /\ (n > 0 /\ chunks[n].status >= 400) => opc = "raised"
            /\ opc = "returned" => (n > 0 /\ chunks[n].body[2] = file_size - 1)

\* an upload in several chunks, the last one shorter, has returned
C9_Witness ==
    /\ op.name = "upload_file"
    /\ opc = "returned"
    /\ chunk_size > 0
    /\ Len(reqs) >= 4
    /\ file_size % chunk_size # 0
====
